---- MODULE Spec2Model ----
(***************************************************************************)
(* Model of .github/scripts/generate-readme.js: one run of the script is   *)
(* Extract (lines 105-127), Build (lines 133-235) and WriteOutput (lines   *)
(* 242-252) over a working directory held in the variables fs, manifest    *)
(* and cwdName.  Texts are TLA+ strings and are taken apart character by   *)
(* character, so the regular expressions, the sorts and the template are   *)
(* computed the way the script computes them.                              *)
(*                                                                         *)
(* Encoding: a TLA+ string literal cannot hold U+0060 (the backquote) nor  *)
(* non-ASCII characters.  BT stands for the backquote wherever the script  *)
(* writes or matches one, the em dash of line 224 is written "--" and the  *)
(* emoji of the console messages are left out.                             *)
(***************************************************************************)
EXTENDS Integers, Sequences, FiniteSets, TLC

VARIABLES
  fs,        \* the working directory: path |-> node
  manifest,  \* package.json: missing, not JSON, or the parsed value
  cwdName,   \* path.basename(process.cwd())
  now,       \* what new Date().toISOString() returns in this run
  pc,        \* where the run stands: start, extracted, built, done
  run,       \* the number of this run
  data,      \* the constants of lines 105-127
  content,   \* the report text
  status,    \* Running, then Written, Unchanged or Fault
  exitCode,  \* the exit code of the process, -1 while it runs
  console,   \* the line written by console.log
  writes,    \* the calls of fs.writeFileSync this run completed
  fs0,       \* fs as this run found it
  prevRun    \* the timestamp and the outcome of the run before

vars == <<fs, manifest, cwdName, now, pc, run, data, content, status,
          exitCode, console, writes, fs0, prevRun>>

(***************************************************************************)
(* Bounds of the model.                                                    *)
(***************************************************************************)
MaxScripts == 2
MaxDeps == 2
MaxRuns == 2

(***************************************************************************)
(* Strings.                                                                *)
(***************************************************************************)
BT == "~"

CharAt(s, i) == SubSeq(s, i, i)

StartsWith(s, p) == Len(s) >= Len(p) /\ SubSeq(s, 1, Len(p)) = p

EndsWith(s, p) == Len(s) >= Len(p) /\ SubSeq(s, Len(s) - Len(p) + 1, Len(s)) = p

Min(S) == CHOOSE i \in S : \A j \in S : i <= j

\* the position of the first occurrence of pat in s at or after from, 0 if none
IndexOf(s, pat, from) ==
  LET at == {i \in from..(Len(s) - Len(pat) + 1) : SubSeq(s, i, i + Len(pat) - 1) = pat}
  IN  IF at = {} THEN 0 ELSE Min(at)

Includes(s, pat) == IndexOf(s, pat, 1) > 0

\* the characters of the model in ascending UTF-16 code unit order
CodeUnits ==
  "\n !\"#$%&'()*+,-./0123456789:;<=>?@ABCDEFGHIJKLMNOPQRSTUVWXYZ[\\]^_~abcdefghijklmnopqrstuvwxyz{|}"

\* the same characters in the order of the root collation that
\* String.prototype.localeCompare applies: punctuation, digits, letters
Collation ==
  "\n _-,;:!?.'\"()[]{}@*/\\&#%~^+<=>|$0123456789aAbBcCdDeEfFgGhHiIjJkKlLmMnNoOpPqQrRsStTuUvVwWxXyYzZ"

Chars(s) == {CharAt(s, i) : i \in 1..Len(s)}

CodeUnitRank == [c \in Chars(CodeUnits) |-> IndexOf(CodeUnits, c, 1)]

CollationRank == [c \in Chars(Collation) |-> IndexOf(Collation, c, 1)]

\* -1, 0 or 1 as a sorts before, with or after b, character by character;
\* order is the rank of each character
Compare(order, a, b) ==
  LET differ == {i \in 1..Len(a) : i <= Len(b) /\ CharAt(a, i) # CharAt(b, i)}
  IN  IF differ # {}
        THEN (IF order[CharAt(a, Min(differ))] < order[CharAt(b, Min(differ))] THEN -1 ELSE 1)
      ELSE IF Len(a) < Len(b) THEN -1
      ELSE IF Len(a) > Len(b) THEN 1
      ELSE 0

\* a.localeCompare(b)
localeCompare(a, b) == Compare(CollationRank, a, b)

\* String.prototype.replace with a global one-character pattern
RECURSIVE ReplaceAll(_, _, _)
ReplaceAll(s, c, by) ==
  LET i == IndexOf(s, c, 1)
  IN  IF i = 0 THEN s
      ELSE SubSeq(s, 1, i - 1) \o by \o ReplaceAll(SubSeq(s, i + 1, Len(s)), c, by)

(***************************************************************************)
(* Array.prototype.sort on strings that are pairwise different, by         *)
(* insertion; order is the character order the comparator applies.         *)
(***************************************************************************)
RECURSIVE InsertSorted(_, _, _)
InsertSorted(order, x, s) ==
  IF s = <<>> THEN <<x>>
  ELSE IF Compare(order, x, Head(s)) < 0 THEN <<x>> \o s
  ELSE <<Head(s)>> \o InsertSorted(order, x, Tail(s))

RECURSIVE SortFrom(_, _, _)
SortFrom(order, s, acc) ==
  IF s = <<>> THEN acc
  ELSE SortFrom(order, Tail(s), InsertSorted(order, Head(s), acc))

\* Array.prototype.sort() with the default comparator
SortStrings(s) == SortFrom(CodeUnitRank, s, <<>>)

\* the entries in the order the object declares them
SortEntries_Declared(s) == s

\* entries.sort((a, b) => a[0].localeCompare(b[0])): the keys of an object
\* are pairwise different, so the entries follow their sorted keys
SortEntries(s) ==
  LET keys == SortFrom(CollationRank, [i \in 1..Len(s) |-> s[i][1]], <<>>)
  IN  [i \in 1..Len(s) |-> CHOOSE e \in {s[j] : j \in 1..Len(s)} : e[1] = keys[i]]

Reverse(s) == [i \in 1..Len(s) |-> s[Len(s) + 1 - i]]

RECURSIVE SetToSeq(_)
SetToSeq(S) ==
  IF S = {} THEN <<>>
  ELSE LET x == CHOOSE y \in S : TRUE IN <<x>> \o SetToSeq(S \ {x})

\* the index after the run of characters of chars that starts at i
RECURSIVE SkipIn(_, _, _)
SkipIn(s, chars, i) ==
  IF i <= Len(s) /\ CharAt(s, i) \in chars THEN SkipIn(s, chars, i + 1) ELSE i

\* the index after the run of characters not of chars that starts at i
RECURSIVE SkipNotIn(_, _, _)
SkipNotIn(s, chars, i) ==
  IF i <= Len(s) /\ CharAt(s, i) \notin chars THEN SkipNotIn(s, chars, i + 1) ELSE i

Whitespace == {" ", "\n", "\t"}

WordChars == Chars("ABCDEFGHIJKLMNOPQRSTUVWXYZabcdefghijklmnopqrstuvwxyz0123456789_")

Quotes == {"'", "\"", BT}

NoMatch == [found |-> FALSE, group |-> ""]

Match(g) == [found |-> TRUE, group |-> g]

(***************************************************************************)
(* txt.match(/selector\s*:\s*['"`]([^'"`]+)['"`]/m): the leftmost match.   *)
(***************************************************************************)
SelectorAt(txt, i) ==
  IF ~(i + 7 <= Len(txt) /\ SubSeq(txt, i, i + 7) = "selector") THEN NoMatch
  ELSE LET j == SkipIn(txt, Whitespace, i + 8) IN
    IF ~(j <= Len(txt) /\ CharAt(txt, j) = ":") THEN NoMatch
    ELSE LET k == SkipIn(txt, Whitespace, j + 1) IN
      IF ~(k <= Len(txt) /\ CharAt(txt, k) \in Quotes) THEN NoMatch
      ELSE LET m == SkipNotIn(txt, Quotes, k + 1) IN
        IF m <= Len(txt) /\ m > k + 1 THEN Match(SubSeq(txt, k + 1, m - 1))
        ELSE NoMatch

selectorMatch(txt) ==
  LET at == {i \in 1..Len(txt) : SelectorAt(txt, i).found}
  IN  IF at = {} THEN NoMatch ELSE SelectorAt(txt, Min(at))

(***************************************************************************)
(* txt.match(/export\s+class\s+(\w+)/m): the leftmost match.               *)
(***************************************************************************)
ClassAt(txt, i) ==
  IF ~(i + 5 <= Len(txt) /\ SubSeq(txt, i, i + 5) = "export") THEN NoMatch
  ELSE LET j == SkipIn(txt, Whitespace, i + 6) IN
    IF ~(j > i + 6 /\ j + 4 <= Len(txt) /\ SubSeq(txt, j, j + 4) = "class") THEN NoMatch
    ELSE LET k == SkipIn(txt, Whitespace, j + 5)
             m == SkipIn(txt, WordChars, k)
         IN  IF k > j + 5 /\ m > k THEN Match(SubSeq(txt, k, m - 1)) ELSE NoMatch

classMatch(txt) ==
  LET at == {i \in 1..Len(txt) : ClassAt(txt, i).found}
  IN  IF at = {} THEN NoMatch ELSE ClassAt(txt, Min(at))

(***************************************************************************)
(* The file system.  A disk maps each path that exists, relative to the    *)
(* working directory, to its node; a "link" is a symbolic link whose       *)
(* target is missing, and perm tells what the process may do with a file.  *)
(* package.json is held apart, parsed, in the variable manifest.           *)
(***************************************************************************)
File(text) == [kind |-> "file", text |-> text, perm |-> "rw"]

FileWith(text, perm) == [kind |-> "file", text |-> text, perm |-> perm]

Dir == [kind |-> "dir", text |-> "", perm |-> "rw"]

Link == [kind |-> "link", text |-> "", perm |-> "rw"]

Disk(fsys, m) ==
  IF m.kind = "missing" THEN fsys ELSE fsys @@ ("package.json" :> File(""))

EntryNames ==
  { "README.md", "package.json", "angular.json", "src", "app", "docs",
    "node_modules", ".git", ".github", "notes.txt", "guide.md", "main.ts",
    "foo.component.ts", "bar.component.ts", "dangling" }

\* path.join on a POSIX host, for the arguments the script passes
join(a, b) == IF a = "" \/ a = "." THEN b ELSE a \o "/" \o b

existsSync(disk, p) == p = "." \/ (p \in DOMAIN disk /\ disk[p].kind # "link")

IsDirectory(disk, p) == p = "." \/ (p \in DOMAIN disk /\ disk[p].kind = "dir")

\* fs.statSync(p) throws on a link whose target is missing
StatThrows(disk, p) == ~existsSync(disk, p)

\* fs.readdirSync(dir): the order of the names is the host's; ord is the
\* order this call returns them in
readdirSync(disk, dir, ord) ==
  LET names == SortStrings(SetToSeq({n \in EntryNames : join(dir, n) \in DOMAIN disk}))
  IN  IF ord = "ascending" THEN names ELSE Reverse(names)

ReaddirThrows(disk, dir) == ~IsDirectory(disk, dir)

\* fs.readFileSync(p, "utf8")
ReadThrows(disk, p) ==
  ~(p \in DOMAIN disk /\ disk[p].kind = "file" /\ disk[p].perm # "none")

\* fs.writeFileSync(p, text, "utf8") on a path whose directory exists
WriteThrows(disk, p) ==
  p \in DOMAIN disk /\ ~(disk[p].kind = "file" /\ disk[p].perm = "rw")

Thrown == [ok |-> FALSE, out |-> <<>>]

Returned(v) == [ok |-> TRUE, out |-> v]

(***************************************************************************)
(* listFiles(dir, base), lines 32-49.  ListEntries is the for loop over    *)
(* the names of one directory.                                             *)
(***************************************************************************)
RECURSIVE listFiles(_, _, _, _)
RECURSIVE ListEntries(_, _, _, _, _, _)
listFiles(disk, dir, base, ord) ==
  IF ~existsSync(disk, dir) THEN Returned(<<>>)
  ELSE IF ReaddirThrows(disk, dir) THEN Thrown
  ELSE ListEntries(disk, dir, base, ord, readdirSync(disk, dir, ord), <<>>)

ListEntries(disk, dir, base, ord, names, out) ==
  IF names = <<>> THEN Returned(out)
  ELSE LET full == join(dir, Head(names))
           rel  == join(base, Head(names))
       IN  IF StatThrows(disk, full) THEN Thrown
           ELSE IF IsDirectory(disk, full)
             THEN LET sub == listFiles(disk, full, rel, ord)
                  IN  IF sub.ok
                        THEN ListEntries(disk, dir, base, ord, Tail(names), out \o sub.out)
                        ELSE Thrown
             ELSE ListEntries(disk, dir, base, ord, Tail(names),
                              Append(out, ReplaceAll(rel, "\\", "/")))

(***************************************************************************)
(* listTopLevelFolders(), lines 54-72.                                     *)
(***************************************************************************)
ignore ==
  { "node_modules", ".git", ".github", "README.md", "package.json",
    "package-lock.json", "yarn.lock", "pnpm-lock.yaml" }

\* a listing that does not ask whether the entry is a directory
IsTopLevelFolder_Unfiltered(disk, n) == n \notin ignore

\* line 70
IsTopLevelFolder(disk, n) == IsDirectory(disk, n) /\ n \notin ignore

listTopLevelFolders(disk, ord) ==
  LET names == readdirSync(disk, ".", ord)
      keep(n) == IsTopLevelFolder(disk, n)
  IN  IF \E i \in 1..Len(names) : StatThrows(disk, names[i]) THEN Thrown
      ELSE Returned(SortStrings(SelectSeq(names, keep)))

(***************************************************************************)
(* findComponents(), lines 77-99.  ComponentOf is the body of the try      *)
(* block for one file; a file whose read throws adds nothing.              *)
(***************************************************************************)
IsComponentFile(f) == EndsWith(f, ".component.ts")

ComponentOf(disk, f) ==
  IF ReadThrows(disk, f) THEN <<>>
  ELSE LET txt == disk[f].text
       IN  << [file |-> f,
               selector |-> IF selectorMatch(txt).found THEN selectorMatch(txt).group ELSE "",
               className |-> IF classMatch(txt).found THEN classMatch(txt).group ELSE ""] >>

RECURSIVE ComponentsOf(_, _)
ComponentsOf(disk, files) ==
  IF files = <<>> THEN <<>>
  ELSE ComponentOf(disk, Head(files)) \o ComponentsOf(disk, Tail(files))

SortComponents(cs) ==
  LET keys == SortFrom(CollationRank, [i \in 1..Len(cs) |-> cs[i].file], <<>>)
  IN  [i \in 1..Len(cs) |-> CHOOSE c \in {cs[j] : j \in 1..Len(cs)} : c.file = keys[i]]

findComponents(disk, ord) ==
  IF ~existsSync(disk, "src") THEN Returned(<<>>)
  ELSE LET listed == listFiles(disk, "src", "", ord)
       IN  IF ~listed.ok THEN Thrown
           ELSE Returned(SortComponents(
                  ComponentsOf(disk, SelectSeq(listed.out, IsComponentFile))))

(***************************************************************************)
(* The manifest.  A parsed package.json is a record; a key the file does   *)
(* not hold reads as "" or as the empty list, which is what the script's   *)
(* `|| ""` and `|| {}` make of it.  A script is <<name, command, whether   *)
(* the command is a JSON string>>, a dependency <<name, version>>, both in *)
(* the order the file declares them.                                       *)
(***************************************************************************)
Object(name, description, node, scripts, dependencies, devDependencies) ==
  [null |-> FALSE, name |-> name, description |-> description, node |-> node,
   scripts |-> scripts, dependencies |-> dependencies,
   devDependencies |-> devDependencies]

EmptyObject == Object("", "", "", <<>>, <<>>, <<>>)

Null == [EmptyObject EXCEPT !.null = TRUE]

Missing == [kind |-> "missing", value |-> Null]

Invalid == [kind |-> "invalid", value |-> Null]

Json(value) == [kind |-> "json", value |-> value]

\* readJSON(filePath), lines 21-27
readJSON(m) == IF m.kind = "json" THEN m.value ELSE Null

\* the manifest as parsed, with no default for null
pkg_NoDefault(m) == readJSON(m)

\* line 105: readJSON("package.json") || {}
pkg(m) == IF readJSON(m).null THEN EmptyObject ELSE readJSON(m)

\* the detection without the devDependencies
isAngular_NoDevDeps(disk, deps, devDeps) ==
  \/ existsSync(disk, "angular.json")
  \/ \E i \in 1..Len(deps) : StartsWith(deps[i][1], "@angular/")

\* lines 121-124
isAngular(disk, deps, devDeps) ==
  \/ existsSync(disk, "angular.json")
  \/ \E i \in 1..Len(deps) : StartsWith(deps[i][1], "@angular/")
  \/ \E i \in 1..Len(devDeps) : StartsWith(devDeps[i][1], "@angular/")

(***************************************************************************)
(* Data extraction, lines 105-127.  Reading a property of null throws, as  *)
(* do listFiles, findComponents and listTopLevelFolders when a directory   *)
(* cannot be listed or an entry cannot be stat'ed.                         *)
(***************************************************************************)
ExtractData(m, fsys, cwd, ord) ==
  LET disk       == Disk(fsys, m)
      p          == pkg(m)
      listed     == listFiles(disk, "src", "", ord)
      deps       == SortEntries(p.dependencies)
      devDeps    == SortEntries(p.devDependencies)
      components == findComponents(disk, ord)
      topFolders == listTopLevelFolders(disk, ord)
  IN  IF p.null \/ ~listed.ok \/ ~components.ok \/ ~topFolders.ok THEN Thrown
      ELSE Returned(
        [title      |-> IF p.name # "" THEN p.name ELSE cwd,
         desc       |-> p.description,
         nodeVer    |-> p.node,
         files      |-> SortStrings(listed.out),
         scripts    |-> SortEntries(p.scripts),
         deps       |-> deps,
         devDeps    |-> devDeps,
         isAngular  |-> isAngular(disk, deps, devDeps),
         components |-> components.out,
         topFolders |-> topFolders.out])

(***************************************************************************)
(* The report, lines 133-235, section by section.                          *)
(***************************************************************************)
Fence == BT \o BT \o BT

RECURSIVE Concat(_)
Concat(lines) == IF lines = <<>> THEN "" ELSE Head(lines) \o Concat(Tail(lines))

\* lines 134-137
Header(d, t) ==
  "# " \o d.title \o "\n\n"
  \o (IF d.desc # "" THEN d.desc \o "\n\n" ELSE "")
  \o "Generated: " \o t \o "\n\n"
  \o (IF d.nodeVer # "" THEN "Node requirement: " \o d.nodeVer \o "\n\n" ELSE "")

IsStartScript(e) == e[1] \in {"start", "serve"}

IsBuildScript(e) == e[1] \in {"build", "prod", "prepare"}

\* lines 157-169
BuildCommand(scripts, angular) ==
  IF \E i \in 1..Len(scripts) : IsBuildScript(scripts[i])
    THEN "npm run " \o Head(SelectSeq(scripts, IsBuildScript))[1] \o "\n"
  ELSE IF angular THEN "npx ng build --prod\n"
  ELSE "npm run build\n"

\* lines 171-178
TestCommand(scripts) ==
  IF \E i \in 1..Len(scripts) : scripts[i][1] = "test" THEN "npm test\n"
  ELSE "npm run test\n"

\* lines 140-178
GettingStarted(d) ==
  "## Getting started\n\n"
  \o "These commands use PowerShell; adjust for bash if needed.\n\n"
  \o "Install dependencies:\n\n"
  \o Fence \o "powershell\nnpm ci\n" \o Fence \o "\n\n"
  \o (IF d.isAngular
        THEN "Run the dev server (Angular):\n\n"
             \o Fence \o "powershell\nnpx ng serve --open\n" \o Fence \o "\n\n"
        ELSE "")
  \o (IF SelectSeq(d.scripts, IsStartScript) # <<>>
        THEN "Start the app using npm script:\n\n"
             \o Fence \o "powershell\nnpm run "
             \o Head(SelectSeq(d.scripts, IsStartScript))[1] \o "\n" \o Fence \o "\n\n"
        ELSE "")
  \o "Build for production:\n\n"
  \o Fence \o "powershell\n"
  \o BuildCommand(d.scripts, d.isAngular)
  \o Fence \o "\n\n"
  \o "Run tests:\n\n"
  \o Fence \o "powershell\n"
  \o TestCommand(d.scripts)
  \o Fence \o "\n\n"

\* line 186; cmd.replace throws when cmd is not a string
ScriptLine(e) ==
  "- **" \o e[1] \o "**: " \o BT \o ReplaceAll(e[2], BT, "\\" \o BT) \o BT \o "\n"

ScriptThrows(scripts) == \E i \in 1..Len(scripts) : ~scripts[i][3]

\* lines 181-189
ScriptsSection(scripts) ==
  "## Available npm scripts\n\n"
  \o (IF Len(scripts) = 0
        THEN "_No scripts defined in " \o BT \o "package.json" \o BT \o "._\n\n"
        ELSE Concat([i \in 1..Len(scripts) |-> ScriptLine(scripts[i])]) \o "\n")

\* lines 195 and 203
DepLine(e) == "- " \o BT \o e[1] \o BT \o ": " \o e[2] \o "\n"

\* lines 192-197
DepsSection(deps) ==
  "## Dependencies\n\n"
  \o (IF Len(deps) = 0 THEN "_No dependencies listed._\n\n"
      ELSE Concat([i \in 1..Len(deps) |-> DepLine(deps[i])]) \o "\n")

\* lines 200-205
DevDepsSection(devDeps) ==
  "## Dev dependencies\n\n"
  \o (IF Len(devDeps) = 0 THEN "_No devDependencies listed._\n\n"
      ELSE Concat([i \in 1..Len(devDeps) |-> DepLine(devDeps[i])]) \o "\n")

\* lines 212 and 233
PathLine(f) == "- " \o BT \o f \o BT \o "\n"

\* lines 208-214
StructureSection(topFolders) ==
  "## Project structure (top-level folders)\n\n"
  \o (IF Len(topFolders) = 0
        THEN "_No top-level folders found or repository is empty._\n\n"
        ELSE Concat([i \in 1..Len(topFolders) |-> PathLine(topFolders[i])]) \o "\n")

\* line 224
ComponentLine(c) ==
  "- " \o BT \o c.file \o BT
  \o " -- selector: " \o BT \o (IF c.selector # "" THEN c.selector ELSE "-") \o BT
  \o ", class: " \o BT \o (IF c.className # "" THEN c.className ELSE "-") \o BT \o "\n"

\* lines 217-227
ComponentsSection(angular, components) ==
  "## Angular components (detected)\n\n"
  \o (IF ~angular THEN "_Angular project not detected._\n\n"
      ELSE IF Len(components) = 0
        THEN "_No " \o BT \o "*.component.ts" \o BT \o " files detected under "
             \o BT \o "src/" \o BT \o "._\n\n"
      ELSE Concat([i \in 1..Len(components) |-> ComponentLine(components[i])]) \o "\n")

\* the file listing with no branch for the empty list
FilesSection_NoPlaceholder(files) ==
  "## Files in src/\n\n"
  \o Concat([i \in 1..Len(files) |-> PathLine(files[i])])
  \o "\n---\n\n"

\* lines 230-235
FilesSection(files) ==
  "## Files in src/\n\n"
  \o (IF Len(files) = 0 THEN "_No files found in " \o BT \o "src/" \o BT \o "._\n"
      ELSE Concat([i \in 1..Len(files) |-> PathLine(files[i])]))
  \o "\n---\n\n"

\* lines 133-235: the whole report, or the TypeError of line 186
BuildContent(d, t) ==
  IF ScriptThrows(d.scripts) THEN [ok |-> FALSE, out |-> ""]
  ELSE [ok |-> TRUE,
        out |-> Header(d, t) \o GettingStarted(d) \o ScriptsSection(d.scripts)
                \o DepsSection(d.deps) \o DevDepsSection(d.devDeps)
                \o StructureSection(d.topFolders)
                \o ComponentsSection(d.isAngular, d.components)
                \o FilesSection(d.files)]

(***************************************************************************)
(* Write output, lines 242-252.                                            *)
(***************************************************************************)
outPath == "README.md"

writeFileSync(fsys, p, text) ==
  IF p \in DOMAIN fsys THEN [fsys EXCEPT ![p].text = text]
  ELSE fsys @@ (p :> File(text))

\* line 243
prev(fsys) == IF existsSync(fsys, outPath) THEN fsys[outPath].text ELSE ""

Faulted(fsys) ==
  [status |-> "Fault", exitCode |-> 1, console |-> "", writes |-> 0, fs |-> fsys]

WriteResult(fsys, text) ==
  IF existsSync(fsys, outPath) /\ ReadThrows(fsys, outPath) THEN Faulted(fsys)
  ELSE IF prev(fsys) # text
    THEN IF WriteThrows(fsys, outPath) THEN Faulted(fsys)
         ELSE [status |-> "Written", exitCode |-> 0, console |-> "README.md updated",
               writes |-> 1, fs |-> writeFileSync(fsys, outPath, text)]
    ELSE [status |-> "Unchanged", exitCode |-> 0, console |-> "README.md unchanged",
          writes |-> 0, fs |-> fsys]

(***************************************************************************)
(* The projects the runs start from.                                       *)
(***************************************************************************)
FooText ==
  "@Component({\n  selector: 'app-foo',\n})\nexport class FooComponent {}\n"

BarText == "@Component({ selector : \"app-bar\" })\nexport  class BarComponent {}\n"

OldReadme == "# old\n"

None == [p \in {} |-> Dir]

ReadmeChoices ==
  { None,
    outPath :> File(OldReadme),
    outPath :> FileWith(OldReadme, "r"),
    outPath :> FileWith(OldReadme, "none"),
    outPath :> Dir }

MarkerChoices == { None, "angular.json" :> File("{}") }

SrcApp ==
  "src" :> Dir @@ "src/main.ts" :> File("bootstrap();\n") @@ "src/app" :> Dir
  @@ "src/app/foo.component.ts" :> File(FooText)

SrcTwo == SrcApp @@ "src/app/bar.component.ts" :> File(BarText)

SrcChoices ==
  { None,
    "src" :> File(""),
    "src" :> Dir,
    "src" :> Dir @@ "src/main.ts" :> File("bootstrap();\n"),
    SrcApp,
    SrcTwo,
    "src" :> Dir @@ "src/main.ts" :> File("bootstrap();\n") @@ "src/dangling" :> Link,
    "src" :> Dir @@ "src/app" :> Dir
      @@ "src/app/foo.component.ts" :> FileWith(FooText, "none") }

RootDocs ==
  "docs" :> Dir @@ "docs/guide.md" :> File("guide\n") @@ "node_modules" :> Dir
  @@ ".git" :> Dir @@ "notes.txt" :> File("todo\n")

\* a folder beside src that holds a file at the path a component has in src
RootShadow == "app" :> Dir @@ "app/foo.component.ts" :> File(BarText)

RootChoices == { None, RootDocs, RootShadow, "dangling" :> Link }

FileSystems ==
  { r @@ a @@ t @@ o :
      r \in ReadmeChoices, a \in MarkerChoices, t \in SrcChoices, o \in RootChoices }

TypicalFileSystems ==
  { SrcApp @@ RootDocs,
    (outPath :> File(OldReadme)) @@ ("angular.json" :> File("{}")) @@ SrcTwo @@ RootShadow }

\* the sequences without repetition of at most n elements of S
RECURSIVE Arrangements(_, _)
Arrangements(S, n) ==
  IF n = 0 THEN {<<>>}
  ELSE {<<>>} \cup { <<x>> \o rest : x \in S, rest \in Arrangements(S, n - 1) }

Distinct(s) == \A i, j \in 1..Len(s) : i # j => s[i][1] # s[j][1]

ScriptEntries ==
  { <<"build", "ng build", TRUE>>,
    <<"prepare", "echo " \o BT \o "pwd" \o BT, TRUE>>,
    <<"prod", "ng build --prod", TRUE>>,
    <<"start", "npx ng serve --open", TRUE>>,
    <<"test", "jest", TRUE>>,
    <<"lint", "1", FALSE>> }

ScriptLists == { s \in Arrangements(ScriptEntries, MaxScripts) : Distinct(s) }

DepLists ==
  { s \in Arrangements({ <<"rxjs", "^7.8.0">>, <<"@angular/core", "^17.0.0">>,
                           <<"zone.js", "^0.14.2">> }, MaxDeps) :
      Distinct(s) }

DevDepLists ==
  { s \in Arrangements({ <<"typescript", "^5.2.2">>, <<"@angular/cli", "^17.0.0">> }, MaxDeps) :
      Distinct(s) }

AngularObject ==
  Object("task-tracking", "Track tasks", ">=18",
         << <<"test", "jest", TRUE>>, <<"build", "ng build", TRUE>> >>,
         << <<"rxjs", "^7.8.0">>, <<"@angular/core", "^17.0.0">> >>, <<>>)

BaseManifests == { Missing, Invalid, Json(EmptyObject), Json(AngularObject) }

Manifests ==
  BaseManifests
  \cup { Json(Object("", "", "", s, <<>>, <<>>)) : s \in ScriptLists }
  \cup { Json(Object("", "Track tasks", ">=18", <<>>, d, dd)) : d \in DepLists, dd \in DevDepLists }

CwdNames == { "Task-Tracking", "checkout" }

Projects ==
  { [manifest |-> m, fs |-> f, cwd |-> "Task-Tracking"] : m \in Manifests, f \in TypicalFileSystems }
  \cup { [manifest |-> m, fs |-> f, cwd |-> "Task-Tracking"] : m \in BaseManifests, f \in FileSystems }
  \cup { [manifest |-> m, fs |-> f, cwd |-> "checkout"] : m \in BaseManifests, f \in TypicalFileSystems }

Orders == { "ascending", "descending" }

Clock(i) == "2024-05-01T10:00:0" \o CharAt("0123456789", i + 1) \o ".000Z"

NoData ==
  [title |-> "", desc |-> "", nodeVer |-> "", files |-> <<>>, scripts |-> <<>>,
   deps |-> <<>>, devDeps |-> <<>>, isAngular |-> FALSE, components |-> <<>>,
   topFolders |-> <<>>]

(***************************************************************************)
(* The runs.                                                               *)
(***************************************************************************)
Init ==
  /\ \E p \in Projects : manifest = p.manifest /\ fs = p.fs /\ cwdName = p.cwd
  /\ fs0 = fs
  /\ now = Clock(0)
  /\ pc = "start"
  /\ run = 1
  /\ data = NoData
  /\ content = ""
  /\ status = "Running"
  /\ exitCode = -1
  /\ console = ""
  /\ writes = 0
  /\ prevRun = [now |-> "", status |-> "None"]

\* an uncaught exception ends the process with exit code 1
Throw ==
  /\ pc' = "done"
  /\ status' = "Fault"
  /\ exitCode' = 1
  /\ UNCHANGED <<fs, console, writes>>

\* lines 105-127
Extract ==
  /\ pc = "start"
  /\ \E ord \in Orders :
       LET r == ExtractData(manifest, fs, cwdName, ord)
       IN  IF r.ok THEN /\ data' = r.out
                        /\ pc' = "extracted"
                        /\ UNCHANGED <<fs, status, exitCode, console, writes>>
           ELSE Throw /\ UNCHANGED data
  /\ UNCHANGED <<manifest, cwdName, now, run, content, fs0, prevRun>>

\* lines 133-235
Build ==
  /\ pc = "extracted"
  /\ LET r == BuildContent(data, now)
     IN  IF r.ok THEN /\ content' = r.out
                      /\ pc' = "built"
                      /\ UNCHANGED <<fs, status, exitCode, console, writes>>
         ELSE Throw /\ UNCHANGED content
  /\ UNCHANGED <<manifest, cwdName, now, run, data, fs0, prevRun>>

\* lines 242-252
WriteOutput ==
  /\ pc = "built"
  /\ LET r == WriteResult(fs, content)
     IN  /\ fs' = r.fs
         /\ status' = r.status
         /\ exitCode' = r.exitCode
         /\ console' = r.console
         /\ writes' = writes + r.writes
  /\ pc' = "done"
  /\ UNCHANGED <<manifest, cwdName, now, run, data, content, fs0, prevRun>>

\* the script is started again on the project as the run before left it,
\* within the same millisecond or later
Restart ==
  /\ pc = "done"
  /\ run < MaxRuns
  /\ now' \in {now, Clock(run)}
  /\ prevRun' = [now |-> now, status |-> status]
  /\ run' = run + 1
  /\ fs0' = fs
  /\ pc' = "start"
  /\ data' = NoData
  /\ content' = ""
  /\ status' = "Running"
  /\ exitCode' = -1
  /\ console' = ""
  /\ writes' = 0
  /\ UNCHANGED <<fs, manifest, cwdName>>

Next == Extract \/ Build \/ WriteOutput \/ Restart

Spec == Init /\ [][Next]_vars

(***************************************************************************)
(* What the claims read: the inputs of the run as the project holds them,  *)
(* the report split into lines, and a whole run as one function.           *)
(***************************************************************************)
\* s.split("\n")
Lines(s) ==
  LET IsNewline(i) == CharAt(s, i) = "\n"
      nl == SelectSeq([i \in 1..Len(s) |-> i], IsNewline)
  IN  [k \in 1..(Len(nl) + 1) |->
         SubSeq(s, IF k = 1 THEN 1 ELSE nl[k - 1] + 1,
                   IF k > Len(nl) THEN Len(s) ELSE nl[k] - 1)]

IndexOfLine(lines, l) ==
  IF \E i \in 1..Len(lines) : lines[i] = l
    THEN CHOOSE i \in 1..Len(lines) : lines[i] = l /\ \A j \in 1..(i - 1) : lines[j] # l
    ELSE 0

\* the lines of the section under the heading h, up to the next heading
Section(lines, h) ==
  LET a == IndexOfLine(lines, h)
      ends == {i \in (a + 1)..Len(lines) : StartsWith(lines[i], "## ")}
      b == IF ends = {} THEN Len(lines) + 1 ELSE Min(ends)
  IN  IF a = 0 THEN <<>> ELSE SubSeq(lines, a + 1, b - 1)

IsListLine(l) == StartsWith(l, "- ")

ListLines(section) == SelectSeq(section, IsListLine)

Has(section, l) == \E i \in 1..Len(section) : section[i] = l

\* the lines of the fenced block that follows the caption
Snippet(lines, caption) ==
  LET a == IndexOfLine(lines, caption)
      closes == {i \in (a + 3)..Len(lines) : lines[i] = Fence}
      b == Min(closes)
  IN  IF a = 0 \/ closes = {} \/ lines[a + 2] # Fence \o "powershell" THEN <<>>
      ELSE SubSeq(lines, a + 3, b - 1)

Declared(m) == IF m.kind = "json" THEN m.value ELSE EmptyObject

Names(entries) == {entries[i][1] : i \in 1..Len(entries)}

IsTopLevel(p) == ~Includes(p, "/")

UnderSrc(p) == StartsWith(p, "src/")

RelativeToSrc(p) == SubSeq(p, 5, Len(p))

SrcFiles(fsys) == {RelativeToSrc(p) : p \in {q \in DOMAIN fsys : UnderSrc(q) /\ fsys[q].kind # "dir"}}

TopFolderNames(fsys) == {p \in DOMAIN fsys : IsTopLevel(p) /\ fsys[p].kind = "dir"}

Detected(m, fsys) ==
  \/ ("angular.json" \in DOMAIN fsys /\ fsys["angular.json"].kind # "link")
  \/ \E n \in Names(Declared(m).dependencies) \cup Names(Declared(m).devDependencies) :
       StartsWith(n, "@angular/")

\* the report of a run on the given project, when the run builds one
Report(m, fsys, cwd, t, ord) ==
  LET e == ExtractData(m, fsys, cwd, ord)
  IN  IF e.ok THEN BuildContent(e.out, t) ELSE [ok |-> FALSE, out |-> ""]

\* the terminal state, the report and the project a run ends with
RunOutcome(m, fsys, cwd, t, ord) ==
  LET r == Report(m, fsys, cwd, t, ord)
      w == WriteResult(fsys, r.out)
  IN  IF r.ok THEN [status |-> w.status, content |-> r.out, fs |-> w.fs]
      ELSE [status |-> "Fault", content |-> "", fs |-> fsys]

Reported == pc = "built"

Extracted == data # NoData

PriorContent == IF outPath \in DOMAIN fs0 THEN fs0[outPath].text ELSE ""

(***************************************************************************)
(* C1: every run ends in Written or Unchanged with exit code 0, never in a *)
(* thrown fault, whatever the manifest, src and README.md are.             *)
(***************************************************************************)
C1_EveryRunSucceeds ==
  pc = "done" => status \in {"Written", "Unchanged"} /\ exitCode = 0

\* the runs that throw are those C1 names, and no others
ThrowsOnlyOnBadInput ==
  pc = "done" /\ status = "Fault" =>
    \/ \E p \in DOMAIN fs0 : fs0[p].kind = "link"
    \/ ("src" \in DOMAIN fs0 /\ fs0["src"].kind = "file")
    \/ (outPath \in DOMAIN fs0 /\ fs0[outPath] # File(fs0[outPath].text))
    \/ \E i \in 1..Len(Declared(manifest).scripts) : ~Declared(manifest).scripts[i][3]

(***************************************************************************)
(* C2: every file under src/ named *.component.ts whose text holds a       *)
(* selector declaration and an exported class has exactly one record in    *)
(* the component list, with that selector and that class name; only a file *)
(* that cannot be read is left out.                                        *)
(***************************************************************************)
ComponentSources ==
  {p \in DOMAIN fs0 :
     /\ UnderSrc(p) /\ IsComponentFile(p)
     /\ fs0[p].kind = "file" /\ fs0[p].perm # "none"
     /\ selectorMatch(fs0[p].text).found /\ classMatch(fs0[p].text).found}

RecordsOf(f) == {i \in 1..Len(data.components) : data.components[i].file = f}

C2_ComponentsOfSrc ==
  Extracted =>
    \A p \in ComponentSources :
      /\ Cardinality(RecordsOf(RelativeToSrc(p))) = 1
      /\ \A i \in RecordsOf(RelativeToSrc(p)) :
           /\ data.components[i].selector = selectorMatch(fs0[p].text).group
           /\ data.components[i].className = classMatch(fs0[p].text).group

(***************************************************************************)
(* C3: a second run on the unchanged project with the same timestamp ends  *)
(* in Unchanged: it writes nothing and leaves README.md as the first run   *)
(* left it.                                                                *)
(***************************************************************************)
SecondRunSameTime == pc = "done" /\ run > 1 /\ now = prevRun.now

C3_SecondRunUnchanged ==
  SecondRunSameTime => status = "Unchanged" /\ writes = 0 /\ fs = fs0

\* what remains of C3 after a first run that did not throw
SecondRunUnchangedAfterSuccess ==
  SecondRunSameTime /\ prevRun.status # "Fault" =>
    status = "Unchanged" /\ writes = 0 /\ fs = fs0

(***************************************************************************)
(* C6: a run that finds no README.md always ends in Written, and README.md *)
(* then exists and holds exactly the generated report.                     *)
(***************************************************************************)
C6_AbsentReadmeIsWritten ==
  pc = "done" /\ outPath \notin DOMAIN fs0 =>
    /\ status = "Written"
    /\ outPath \in DOMAIN fs
    /\ fs[outPath] = File(content)

\* what remains of C6 for the runs that do not throw
AbsentReadmeIsWrittenUnlessThrown ==
  pc = "done" /\ outPath \notin DOMAIN fs0 /\ status # "Fault" =>
    /\ status = "Written"
    /\ fs = fs0 @@ (outPath :> File(content))

(***************************************************************************)
(* C7: a run that has generated its report ends in Written iff the report  *)
(* differs from what README.md held, and README.md then holds the report;  *)
(* it ends in Unchanged iff they are equal, and README.md is then as it    *)
(* was.  At most one write is made and no other file is touched.           *)
(***************************************************************************)
OthersUntouched ==
  /\ DOMAIN fs \ {outPath} = DOMAIN fs0 \ {outPath}
  /\ \A p \in DOMAIN fs0 \ {outPath} : fs[p] = fs0[p]

HadPriorContent == outPath \notin DOMAIN fs0 \/ fs0[outPath].kind = "file"

C7_WritesOnlyOnChange ==
  pc = "done" /\ content # "" /\ HadPriorContent =>
    /\ status = "Written" <=> content # PriorContent
    /\ status = "Written" => fs[outPath].text = content
    /\ status = "Unchanged" <=> content = PriorContent
    /\ status = "Unchanged" => fs = fs0
    /\ writes <= 1
    /\ OthersUntouched

\* what remains of C7 for the runs that do not throw
WritesOnlyOnChangeUnlessThrown ==
  pc = "done" /\ status # "Fault" =>
    /\ status = "Written" <=> content # PriorContent
    /\ status = "Written" => fs[outPath].text = content /\ writes = 1
    /\ status = "Unchanged" <=> content = PriorContent
    /\ status = "Unchanged" => fs = fs0 /\ writes = 0
    /\ OthersUntouched

(***************************************************************************)
(* C4: the report is a function of the manifest, the src tree and the      *)
(* names of the top-level folders: two runs that agree on these and on the *)
(* timestamp build the same report, whatever else the working directory    *)
(* holds and whatever it is called.                                        *)
(***************************************************************************)
Put(fsys, p, node) == (p :> node) @@ fsys

Remove(fsys, p) == [q \in DOMAIN fsys \ {p} |-> fsys[q]]

\* the working directory with one thing outside src changed
Alternatives(fsys) ==
  { Remove(fsys, p) : p \in {outPath, "angular.json", "notes.txt", "app/foo.component.ts"} }
  \cup { Put(fsys, p, File("# other\n")) : p \in {outPath, "angular.json", "notes.txt"} }
  \cup { Put(fsys, p, File(FooText)) :
           p \in {q \in {"docs/guide.md", "app/foo.component.ts"} :
                    SubSeq(q, 1, IndexOf(q, "/", 1) - 1) \in TopFolderNames(fsys)} }

SrcTree(fsys) == [p \in {q \in DOMAIN fsys : q = "src" \/ UnderSrc(q)} |-> fsys[p]]

SameDeclaredInputs(f, g) ==
  SrcTree(f) = SrcTree(g) /\ TopFolderNames(f) = TopFolderNames(g)

C4_ReportOfThreeInputs ==
  pc = "built" =>
    \A g \in Alternatives(fs0), c \in CwdNames, o \in Orders :
      SameDeclaredInputs(fs0, g) =>
        LET r == Report(manifest, g, c, now, o) IN r.ok => r.out = content

\* what findComponents reads for the component files of src: the file of
\* the same relative path under the working directory
Mirrored(fsys) ==
  [f \in {q \in SrcFiles(fsys) : IsComponentFile(q)} |->
     IF ReadThrows(fsys, f) THEN "" ELSE fsys[f].text]

SameInputs(f, g) ==
  /\ SameDeclaredInputs(f, g)
  /\ existsSync(f, "angular.json") = existsSync(g, "angular.json")
  /\ Mirrored(f) = Mirrored(g)

\* C4 as amended: the report is a function of the manifest, the src tree,
\* the names of the top-level folders, whether angular.json exists, the name
\* of the working directory and the text found at the path each component
\* file of src has relative to the working directory; two runs that agree on
\* these and on the timestamp build the same report.
C4_ReportOfItsInputs ==
  pc = "built" =>
    \A g \in Alternatives(fs0), o \in Orders :
      SameInputs(fs0, g) =>
        Report(manifest, g, cwdName, now, o) = [ok |-> TRUE, out |-> content]

C4_Witness ==
  /\ pc = "built"
  /\ "notes.txt" \in DOMAIN fs0
  /\ outPath \in DOMAIN fs0
  /\ data.files # <<>>
  /\ \E g \in Alternatives(fs0) : g # fs0 /\ SameInputs(fs0, g) /\ "notes.txt" \notin DOMAIN g

(***************************************************************************)
(* C5: a run whose package.json is missing or is not JSON ends as the run  *)
(* on the same project with the manifest {} ends: same report, same        *)
(* terminal state, same README.md.                                         *)
(***************************************************************************)
C5_MissingManifestIsEmpty ==
  pc = "done" /\ manifest.kind # "json" =>
    \A o \in Orders :
      RunOutcome(Json(EmptyObject), fs0, cwdName, now, o)
        = [status |-> status, content |-> content, fs |-> fs]

C5_Witness ==
  /\ pc = "done"
  /\ manifest.kind = "invalid"
  /\ status = "Written"
  /\ StartsWith(content, "# " \o cwdName \o "\n")

(***************************************************************************)
(* C8: the production build snippet holds exactly one command: npm run     *)
(* <name> for the alphabetically first of build, prepare and prod that the *)
(* manifest declares, in whatever order it declares them; failing these,   *)
(* npx ng build --prod when Angular is detected, else npm run build.       *)
(***************************************************************************)
ExpectedBuildCommand ==
  LET names == Names(Declared(manifest).scripts)
  IN  IF "build" \in names THEN "npm run build"
      ELSE IF "prepare" \in names THEN "npm run prepare"
      ELSE IF "prod" \in names THEN "npm run prod"
      ELSE IF Detected(manifest, fs0) THEN "npx ng build --prod"
      ELSE "npm run build"

C8_BuildCommand ==
  Reported => Snippet(Lines(content), "Build for production:") = <<ExpectedBuildCommand>>

C8_Witness ==
  /\ Reported
  /\ Len(Declared(manifest).scripts) = 2
  /\ Declared(manifest).scripts[1][1] = "prod"
  /\ Declared(manifest).scripts[2][1] = "build"
  /\ Snippet(Lines(content), "Build for production:") = <<"npm run build">>

(***************************************************************************)
(* C9: each of the five listings (npm scripts, dependencies, dev           *)
(* dependencies, top-level folders, files in src/) shows its placeholder   *)
(* sentence iff its collection is empty, and otherwise one list line per   *)
(* entry of the collection and no placeholder.                             *)
(***************************************************************************)
Listing(lines, heading, placeholder, expected) ==
  LET section == Section(lines, heading)
  IN  /\ Has(section, placeholder) <=> expected = {}
      /\ Len(ListLines(section)) = Cardinality(expected)
      /\ \A l \in expected : Has(section, l)

ScriptLineStart(e) == "- **" \o e[1] \o "**: " \o BT

ListsScripts(lines) ==
  LET section  == Section(lines, "## Available npm scripts")
      declared == Declared(manifest).scripts
  IN  /\ Has(section, "_No scripts defined in " \o BT \o "package.json" \o BT \o "._")
           <=> declared = <<>>
      /\ Len(ListLines(section)) = Len(declared)
      /\ \A i \in 1..Len(declared) :
           \E j \in 1..Len(section) : StartsWith(section[j], ScriptLineStart(declared[i]))

DepLines(entries) ==
  {"- " \o BT \o entries[i][1] \o BT \o ": " \o entries[i][2] : i \in 1..Len(entries)}

PathLines(paths) == {"- " \o BT \o f \o BT : f \in paths}

C9_Listings ==
  Reported =>
    LET lines == Lines(content) IN
    /\ ListsScripts(lines)
    /\ Listing(lines, "## Dependencies", "_No dependencies listed._",
               DepLines(Declared(manifest).dependencies))
    /\ Listing(lines, "## Dev dependencies", "_No devDependencies listed._",
               DepLines(Declared(manifest).devDependencies))
    /\ Listing(lines, "## Project structure (top-level folders)",
               "_No top-level folders found or repository is empty._",
               PathLines(TopFolderNames(fs0) \ ignore))
    /\ Listing(lines, "## Files in src/",
               "_No files found in " \o BT \o "src/" \o BT \o "._",
               PathLines(SrcFiles(fs0)))

C9_Witness ==
  /\ Reported
  /\ manifest = Json(EmptyObject)
  /\ "src" \notin DOMAIN fs0
  /\ TopFolderNames(fs0) = {"docs", "node_modules", ".git"}
  /\ Has(Lines(content), "_No files found in " \o BT \o "src/" \o BT \o "._")
  /\ Has(Lines(content), "- " \o BT \o "docs" \o BT)

(***************************************************************************)
(* C10: Angular is detected iff angular.json exists at the root or the     *)
(* name of a dependency or devDependency starts with @angular/.  When it   *)
(* is not, the components section shows "Angular project not detected",    *)
(* even with component files under src/, and Getting started holds neither *)
(* npx ng serve --open nor npx ng build --prod; when it is, Getting        *)
(* started holds npx ng serve --open.                                      *)
(***************************************************************************)
GettingStartedLines == Section(Lines(content), "## Getting started")

ComponentsLines == Section(Lines(content), "## Angular components (detected)")

C10_AngularDetection ==
  /\ Extracted => (data.isAngular <=> Detected(manifest, fs0))
  /\ Reported =>
       LET started    == GettingStartedLines
           components == ComponentsLines
       IN  IF Detected(manifest, fs0)
             THEN /\ Has(started, "npx ng serve --open")
                  /\ ~Has(components, "_Angular project not detected._")
             ELSE /\ components = <<"", "_Angular project not detected._", "">>
                  /\ ~Has(started, "npx ng serve --open")
                  /\ ~Has(started, "npx ng build --prod")

C10_Witness ==
  /\ Reported
  /\ ~Detected(manifest, fs0)
  /\ "src/app/foo.component.ts" \in DOMAIN fs0
  /\ "app/foo.component.ts" \in DOMAIN fs0
  /\ Has(ComponentsLines, "_Angular project not detected._")

====
